---- MODULE Spec2Model ----
(***************************************************************************)
(* Model of fernvale_spi.c: the flashrom programmer driver that tunnels    *)
(* SPI commands over a serial line to a Fernvale board.                    *)
(*                                                                         *)
(* One step of the model is one system call on the serial descriptor       *)
(* (open, tcgetattr, tcsetattr, write, read) together with the code that   *)
(* handles its result, up to the next system call.  The outcome of a       *)
(* system call is chosen by the channel, so it is drawn with \E.           *)
(***************************************************************************)
EXTENDS Integers, Sequences, FiniteSets, TLC

(* ------------------------------ bounds -------------------------------- *)

\* Longest payload / response that fits the one-byte length (lengths 0..MaxLen).
MaxLen == 3
\* Most EAGAIN results the channel gives to one write_full / read_full call.
MaxEagain == 1
\* ready_tries is only printed; it is counted up to this value and then kept.
MaxTries == 2

(* ------------------------- program constants -------------------------- *)

\* uint8_t out_bytes / in_bytes: values are kept modulo 2^8.
UINT8 == 256
\* while (readback != 0x05)
ReadySignal == 5
\* const char cmd[] = { 0, 0 }; sizeof(cmd)
ShutdownLen == 2
\* the descriptor open() returns on success (any value other than -1)
OpenFd == 3

\* const char cmd[] = "spi flashrom\n";
TriggerCmd == <<115, 112, 105, 32, 102, 108, 97, 115, 104, 114, 111, 109, 10>>

\* const char cmd[] = { 0, 0 };
ShutdownCmd == <<0, 0>>

\* Values of bytes the remote puts on the line (0x05 ready, 0xEF a data byte).
RxBytes == {5, 239}
\* Values an uninitialised char can hold when it is first read.
Indeterminate == {0, 5}
\* First payload byte of a command (0x9F read JEDEC id, 0x05 read status).
Seeds == {159, 5}
\* Unsigned counts a caller can pass: those that fit a byte and those that do not.
Counts == (0..MaxLen) \cup {UINT8, UINT8 + 1}

\* A payload of n bytes whose neighbours differ, so that order is observable.
Payload(seed, n) == [i \in 1..n |-> (seed + i - 1) % UINT8]

\* Content of a caller's buffer cell that no read has filled: no byte value.
Unwritten == UINT8 + UINT8

\* The record of the last transaction before any transaction has returned.
NoTxn == [txn |-> FALSE, failed |-> FALSE, unread |-> FALSE, result |-> 0]

VARIABLES
    pc,                  \* position of the program
    fd,                  \* fernvale_data.fd
    serial_ret,          \* int ret of fernvale_spi_setserial
    registered,          \* register_spi_master(&mst) was called
    shutdown_registered, \* register_shutdown(fernvale_spi_shutdown, NULL) was called
    readback,            \* char readback (fernvale_spi_init)
    ready_tries,         \* int ready_tries (fernvale_spi_init)
    writecnt, readcnt,   \* arguments of fernvale_spi_send_command
    writearr, readarr,   \* the caller's buffers
    out_bytes, in_bytes, \* uint8_t locals of fernvale_spi_send_command
    ret,                 \* int ret of fernvale_spi_send_command
    step,                \* which of the four calls of write_full/read_full is active
    size, left, bfr,     \* locals of write_full / read_full (bfr as an offset)
    result,              \* value the last finished operation returned
    op,                  \* operation in progress or last finished
    sent,                \* bytes put on the wire by the operation
    got,                 \* bytes the remote delivered to reads of the operation
    rets,                \* values the calls of write_full/read_full returned so far
    base,                \* Len(sent) when the active write_full was entered
    lastio,              \* outcome of the last system call of the active call
    eagain,              \* EAGAIN results seen by the active call
    ncalls,              \* system calls the active call has made
    sawReady,            \* a read of the scan delivered a byte equal to 0x05
    shut,                \* fernvale_spi_shutdown has run
    prev                 \* how the last transaction that returned had ended

progvars == <<pc, fd, serial_ret, registered, shutdown_registered, readback, ready_tries,
              writecnt, readcnt, writearr, readarr, out_bytes, in_bytes, ret,
              step, size, left, bfr, result>>
ghostvars == <<op, sent, got, rets, base, lastio, eagain, ncalls, sawReady, shut, prev>>
vars == <<progvars, ghostvars>>

txnvars == <<writecnt, readcnt, writearr, readarr, out_bytes, in_bytes, ret,
             step, size, left, bfr>>
callvars == <<rets, base, lastio, eagain, ncalls>>
initvars == <<serial_ret, readback, ready_tries, sawReady>>
regvars == <<registered, shutdown_registered>>

Init ==
    /\ pc = "start"
    /\ fd = 0
    /\ serial_ret = 0
    /\ registered = FALSE
    /\ shutdown_registered = FALSE
    /\ readback = 0
    /\ ready_tries = 0
    /\ writecnt = 0 /\ readcnt = 0
    /\ writearr = <<>> /\ readarr = <<>>
    /\ out_bytes = 0 /\ in_bytes = 0
    /\ ret = 0
    /\ step = 0
    /\ size = 0 /\ left = 0 /\ bfr = 0
    /\ result = "none"
    /\ op = "none"
    /\ sent = <<>> /\ got = <<>> /\ rets = <<>>
    /\ base = 0
    /\ lastio = "none"
    /\ eagain = 0
    /\ ncalls = 0
    /\ sawReady = FALSE
    /\ shut = FALSE
    /\ prev = NoTxn

(* ------------------------- fernvale_spi_init -------------------------- *)

\* fernvale_spi_init without "if (fernvale_data.fd == -1) return 1": it goes on to
\* configure the descriptor whatever open() returned.
InitOpen_nocheck ==
    /\ pc = "start"
    /\ op' = "init"
    /\ \E ok \in BOOLEAN : fd' = IF ok THEN OpenFd ELSE -1
    /\ pc' = "tcget"
    /\ UNCHANGED <<regvars, initvars, txnvars, callvars, result, sent, got, shut, prev>>

\* fernvale_data.fd = open(dev, O_RDWR); if (fd == -1) return 1;
InitOpen ==
    /\ pc = "start"
    /\ op' = "init"
    /\ \E ok \in BOOLEAN :
         IF ok
         THEN /\ fd' = OpenFd
              /\ pc' = "tcget"
              /\ result' = result
         ELSE /\ fd' = -1
              /\ pc' = "init_failed"
              /\ result' = 1
    /\ UNCHANGED <<regvars, initvars, txnvars, callvars, sent, got, shut, prev>>

\* ret = tcgetattr(serfd, &t); if (-1 == ret) exit(1);
SetSerialGet ==
    /\ pc = "tcget"
    /\ \E r \in {0, -1} :
         /\ serial_ret' = r
         /\ pc' = IF r = -1 THEN "exited" ELSE "tcset"
    /\ UNCHANGED <<fd, regvars, readback, ready_tries, sawReady, txnvars, result,
                   op, sent, got, callvars, shut, prev>>

\* fernvale_spi_setserial without the test of tcsetattr's result: the
\* initialisation goes on after a failed configuration.
SetSerialSet_noexit ==
    /\ pc = "tcset"
    /\ \E r \in {0, -1} : serial_ret' = r
    /\ pc' = "trigger"
    /\ UNCHANGED <<fd, regvars, readback, ready_tries, sawReady, txnvars, result,
                   op, sent, got, callvars, shut, prev>>

\* ret = tcsetattr(serfd, TCSANOW, &t); if (-1 == ret) exit(1);
SetSerialSet ==
    /\ pc = "tcset"
    /\ \E r \in {0, -1} :
         /\ serial_ret' = r
         /\ pc' = IF r = -1 THEN "exited" ELSE "trigger"
    /\ UNCHANGED <<fd, regvars, readback, ready_tries, sawReady, txnvars, result,
                   op, sent, got, callvars, shut, prev>>

\* write(fernvale_data.fd, cmd, strlen(cmd)); the result is not looked at.
\* n is what write() returned: -1 (any errno), 0, or the bytes it accepted.
\* char readback; is declared here without a value.
InitWrite ==
    /\ pc = "trigger"
    /\ \E n \in -1..Len(TriggerCmd) :
         sent' = sent \o SubSeq(TriggerCmd, 1, n)
    /\ \E v \in Indeterminate : readback' = v
    /\ ready_tries' = 0
    /\ pc' = "scan"
    /\ UNCHANGED <<fd, serial_ret, regvars, txnvars, result, op, got, callvars,
                   sawReady, shut, prev>>

\* The value of readback after read(fd, &readback, 1) returned r with byte b.
ScanRead(old, r, b) == IF r = 1 THEN b ELSE old

\* do { read(fd, &readback, 1); ready_tries++; } while (readback != 0x05);
\* then register_spi_master, register_shutdown, return 0.
\* The bytes the scan reads are thrown away, so they are not kept in got; the
\* count ready_tries ends with the call.
InitScan ==
    /\ pc = "scan"
    /\ \E r \in {-1, 0, 1}, b \in RxBytes :
         /\ readback' = ScanRead(readback, r, b)
         /\ sawReady' = (sawReady \/ (r = 1 /\ b = ReadySignal))
    /\ IF readback' # ReadySignal
       THEN /\ pc' = "scan"
            /\ ready_tries' = IF ready_tries < MaxTries THEN ready_tries + 1
                              ELSE ready_tries
            /\ UNCHANGED <<regvars, result>>
       ELSE /\ pc' = "done"
            /\ ready_tries' = 0
            /\ registered' = TRUE
            /\ shutdown_registered' = TRUE
            /\ result' = 0
    /\ UNCHANGED <<fd, serial_ret, txnvars, op, sent, got, callvars, shut, prev>>

(* ----------------------- write_full / read_full ----------------------- *)

\* How a system call ended, from its return value and errno.
Outcome(r, e) ==
    IF r = -1 THEN (IF e = "EAGAIN" THEN "eagain" ELSE "err")
    ELSE IF r = 0 THEN "eof"
    ELSE "ok"

\* write_full without "bfr += ret": every write starts at the first byte again.
write_full_iter_noadvance(sz, l, b, r, e) ==
    IF r = -1
    THEN IF e = "EAGAIN"
         THEN [done |-> FALSE, left |-> l, bfr |-> b, ret |-> 0]
         ELSE [done |-> TRUE, left |-> l, bfr |-> b, ret |-> r]
    ELSE IF r = 0
    THEN [done |-> TRUE, left |-> l, bfr |-> b, ret |-> -1]
    ELSE IF l - r > 0
    THEN [done |-> FALSE, left |-> l - r, bfr |-> b, ret |-> 0]
    ELSE [done |-> TRUE, left |-> l - r, bfr |-> b, ret |-> sz]

\* write_full without "if (!ret) return -1": a write of 0 bytes is tried again.
write_full_iter_eofretry(sz, l, b, r, e) ==
    IF r = -1
    THEN IF e = "EAGAIN"
         THEN [done |-> FALSE, left |-> l, bfr |-> b, ret |-> 0]
         ELSE [done |-> TRUE, left |-> l, bfr |-> b, ret |-> r]
    ELSE IF l - r > 0
    THEN [done |-> FALSE, left |-> l - r, bfr |-> b + r, ret |-> 0]
    ELSE [done |-> TRUE, left |-> l - r, bfr |-> b + r, ret |-> sz]

\* write_full that answers a write of 0 bytes with the count written so far,
\* as write() itself would, instead of -1.
write_full_iter_partial(sz, l, b, r, e) ==
    IF r = -1
    THEN IF e = "EAGAIN"
         THEN [done |-> FALSE, left |-> l, bfr |-> b, ret |-> 0]
         ELSE [done |-> TRUE, left |-> l, bfr |-> b, ret |-> r]
    ELSE IF r = 0
    THEN [done |-> TRUE, left |-> l, bfr |-> b, ret |-> sz - l]
    ELSE IF l - r > 0
    THEN [done |-> FALSE, left |-> l - r, bfr |-> b + r, ret |-> 0]
    ELSE [done |-> TRUE, left |-> l - r, bfr |-> b + r, ret |-> sz]

\* One pass of the loop of write_full after write() returned r with errno e:
\*   if (ret == -1) { if (errno == EAGAIN) continue; return ret; }
\*   if (!ret) return -1;
\*   left -= ret; bfr += ret;          and, when left is 0, return size.
write_full_iter(sz, l, b, r, e) ==
    IF r = -1
    THEN IF e = "EAGAIN"
         THEN [done |-> FALSE, left |-> l, bfr |-> b, ret |-> 0]
         ELSE [done |-> TRUE, left |-> l, bfr |-> b, ret |-> r]
    ELSE IF r = 0
    THEN [done |-> TRUE, left |-> l, bfr |-> b, ret |-> -1]
    ELSE IF l - r > 0
    THEN [done |-> FALSE, left |-> l - r, bfr |-> b + r, ret |-> 0]
    ELSE [done |-> TRUE, left |-> l - r, bfr |-> b + r, ret |-> sz]

\* read_full without "bfr += ret": every byte lands in the first cell.
read_full_iter_noadvance(sz, l, b, r, e) ==
    IF r = -1
    THEN IF e = "EAGAIN"
         THEN [done |-> FALSE, left |-> l, bfr |-> b, ret |-> 0]
         ELSE [done |-> TRUE, left |-> l, bfr |-> b, ret |-> r]
    ELSE IF r = 0
    THEN [done |-> TRUE, left |-> l, bfr |-> b, ret |-> -1]
    ELSE IF l - r > 0
    THEN [done |-> FALSE, left |-> l - r, bfr |-> b, ret |-> 0]
    ELSE [done |-> TRUE, left |-> l - r, bfr |-> b, ret |-> sz]

\* read_full without the errno test: EAGAIN ends the call like any other error.
read_full_iter_noretry(sz, l, b, r, e) ==
    IF r = -1
    THEN [done |-> TRUE, left |-> l, bfr |-> b, ret |-> r]
    ELSE IF r = 0
    THEN [done |-> TRUE, left |-> l, bfr |-> b, ret |-> -1]
    ELSE IF l - r > 0
    THEN [done |-> FALSE, left |-> l - r, bfr |-> b + r, ret |-> 0]
    ELSE [done |-> TRUE, left |-> l - r, bfr |-> b + r, ret |-> sz]

\* read_full with "while (left >= 0)": one byte more than requested is read.
read_full_iter_overread(sz, l, b, r, e) ==
    IF r = -1
    THEN IF e = "EAGAIN"
         THEN [done |-> FALSE, left |-> l, bfr |-> b, ret |-> 0]
         ELSE [done |-> TRUE, left |-> l, bfr |-> b, ret |-> r]
    ELSE IF r = 0
    THEN [done |-> TRUE, left |-> l, bfr |-> b, ret |-> -1]
    ELSE IF l - r >= 0
    THEN [done |-> FALSE, left |-> l - r, bfr |-> b + r, ret |-> 0]
    ELSE [done |-> TRUE, left |-> l - r, bfr |-> b + r, ret |-> sz]

\* One pass of the loop of read_full after read(fd, bfr, 1) returned r with errno e.
read_full_iter(sz, l, b, r, e) ==
    IF r = -1
    THEN IF e = "EAGAIN"
         THEN [done |-> FALSE, left |-> l, bfr |-> b, ret |-> 0]
         ELSE [done |-> TRUE, left |-> l, bfr |-> b, ret |-> r]
    ELSE IF r = 0
    THEN [done |-> TRUE, left |-> l, bfr |-> b, ret |-> -1]
    ELSE IF l - r > 0
    THEN [done |-> FALSE, left |-> l - r, bfr |-> b + r, ret |-> 0]
    ELSE [done |-> TRUE, left |-> l - r, bfr |-> b + r, ret |-> sz]

\* What write(fd, bfr, l) can return: -1 with an errno, or 0..l bytes accepted.
\* The channel gives EAGAIN at most MaxEagain times to one call of write_full.
WriteResults(l) ==
    {[r |-> n, e |-> "none"] : n \in 0..l}
      \cup {[r |-> -1, e |-> "EIO"]}
      \cup (IF eagain < MaxEagain THEN {[r |-> -1, e |-> "EAGAIN"]} ELSE {})

\* What read(fd, bfr, 1) can return: -1 with an errno, 0 at end of stream, or one byte.
ReadResults ==
    {[r |-> 1, e |-> "none", b |-> v] : v \in RxBytes}
      \cup {[r |-> 0, e |-> "none", b |-> 0], [r |-> -1, e |-> "EIO", b |-> 0]}
      \cup (IF eagain < MaxEagain THEN {[r |-> -1, e |-> "EAGAIN", b |-> 0]} ELSE {})

(* --------------------- fernvale_spi_send_command ---------------------- *)

\* uint8_t out_bytes = writecnt; uint8_t in_bytes = readcnt;
ToUint8(n) == n % UINT8

\* The calls made with the caller's counts instead of the uint8_t copies:
\* write_full(fd, writearr, writecnt) and read_full(fd, readarr, readcnt).
StepSize_raw(s, ob, ib) ==
    CASE s = 1 -> 1
      [] s = 2 -> 1
      [] s = 3 -> writecnt
      [] s = 4 -> readcnt

\* The size argument of the s-th call: sizeof(out_bytes), sizeof(in_bytes),
\* out_bytes, in_bytes.
StepSize(s, ob, ib) ==
    CASE s = 1 -> 1
      [] s = 2 -> 1
      [] s = 3 -> ob
      [] s = 4 -> ib

\* The buffer argument of the s-th call of write_full: &out_bytes, &in_bytes, writearr.
StepBuf(s) ==
    CASE s = 1 -> <<out_bytes>>
      [] s = 2 -> <<in_bytes>>
      [] s = 3 -> writearr

\* Entry of write_full / read_full as call s with size sz: int left = size;
\* a size of 0 skips the loop and returns size at once.
Enter(s, sz, rs, sn) ==
    /\ step' = s
    /\ size' = sz
    /\ left' = sz
    /\ bfr' = 0
    /\ eagain' = 0
    /\ ncalls' = 0
    /\ lastio' = "none"
    /\ base' = Len(sn)
    /\ IF sz > 0
       THEN /\ pc' = "loop"
            /\ ret' = ret
            /\ rets' = rs
       ELSE /\ pc' = "ret"
            /\ ret' = sz
            /\ rets' = Append(rs, sz)

\* The caller invokes spi_master.command with counts wc, rc and a payload;
\* the function sets its locals and enters write_full(fd, &out_bytes, 1).
SendCommand ==
    /\ pc = "ready"
    /\ registered
    /\ \E wc \in Counts, rc \in Counts, seed \in Seeds :
         /\ writecnt' = wc
         /\ readcnt' = rc
         /\ writearr' = Payload(seed, wc)
         /\ readarr' = [i \in 1..rc |-> Unwritten]
         /\ out_bytes' = ToUint8(wc)
         /\ in_bytes' = ToUint8(rc)
         /\ Enter(1, StepSize(1, ToUint8(wc), ToUint8(rc)), <<>>, <<>>)
    /\ op' = "txn"
    /\ sent' = <<>>
    /\ got' = <<>>
    /\ result' = "none"
    /\ UNCHANGED <<fd, regvars, initvars, shut, prev>>

\* One pass of the loop of write_full: ret = write(fd, bfr, left); ...
WriteIter ==
    /\ pc = "loop"
    /\ step \in 1..3
    /\ \E w \in WriteResults(left) :
         LET it == write_full_iter(size, left, bfr, w.r, w.e) IN
         /\ sent' = sent \o SubSeq(StepBuf(step), bfr + 1, bfr + w.r)
         /\ lastio' = Outcome(w.r, w.e)
         /\ eagain' = IF w.r = -1 /\ w.e = "EAGAIN" THEN eagain + 1 ELSE eagain
         /\ ncalls' = ncalls + 1
         /\ left' = it.left
         /\ bfr' = it.bfr
         /\ IF it.done
            THEN /\ pc' = "ret"
                 /\ ret' = it.ret
                 /\ rets' = Append(rets, it.ret)
            ELSE /\ pc' = "loop"
                 /\ UNCHANGED <<ret, rets>>
    /\ UNCHANGED <<fd, regvars, initvars, writecnt, readcnt, writearr, readarr,
                   out_bytes, in_bytes, step, size, result, op, got, base,
                   shut, prev>>

\* One pass of the loop of read_full: ret = read(fd, bfr, 1); ...
ReadIter ==
    /\ pc = "loop"
    /\ step = 4
    /\ \E w \in ReadResults :
         LET it == read_full_iter(size, left, bfr, w.r, w.e) IN
         /\ readarr' = IF w.r = 1 THEN [readarr EXCEPT ![bfr + 1] = w.b] ELSE readarr
         /\ got' = IF w.r = 1 THEN Append(got, w.b) ELSE got
         /\ lastio' = Outcome(w.r, w.e)
         /\ eagain' = IF w.r = -1 /\ w.e = "EAGAIN" THEN eagain + 1 ELSE eagain
         /\ ncalls' = ncalls + 1
         /\ left' = it.left
         /\ bfr' = it.bfr
         /\ IF it.done
            THEN /\ pc' = "ret"
                 /\ ret' = it.ret
                 /\ rets' = Append(rets, it.ret)
            ELSE /\ pc' = "loop"
                 /\ UNCHANGED <<ret, rets>>
    /\ UNCHANGED <<fd, regvars, initvars, writecnt, readcnt, writearr,
                   out_bytes, in_bytes, step, size, result, op, sent, base,
                   shut, prev>>

\* The calls in another order: the response is read before the payload is written.
NextStep_readfirst(s) ==
    CASE s = 1 -> 2
      [] s = 2 -> 4
      [] s = 4 -> 3
      [] s = 3 -> 5

\* The position after the s-th call returned: the next call, or 5 for "return 0".
NextStep(s) == s + 1

\* Back in fernvale_spi_send_command after a call returned: ret is compared with
\* the size only to print a message; then the next call is made, or 0 is returned.
Proceed ==
    /\ pc = "ret"
    /\ IF NextStep(step) \in 1..4
       THEN /\ Enter(NextStep(step), StepSize(NextStep(step), out_bytes, in_bytes),
                     rets, sent)
            /\ UNCHANGED result
       ELSE /\ pc' = "done"
            /\ result' = 0
            /\ UNCHANGED <<ret, step, size, left, bfr, callvars>>
    /\ UNCHANGED <<fd, regvars, initvars, writecnt, readcnt, writearr, readarr,
                   out_bytes, in_bytes, op, sent, got, shut, prev>>

(* ----------------------- fernvale_spi_shutdown ------------------------ *)

\* write(fernvale_data.fd, cmd, sizeof(cmd)); return 0;
\* n is what write() returned; the result is not looked at.
Shutdown ==
    /\ pc = "ready"
    /\ shutdown_registered
    /\ \E n \in -1..ShutdownLen :
         sent' = SubSeq(ShutdownCmd, 1, n)
    /\ op' = "shutdown"
    /\ result' = 0
    /\ shut' = TRUE
    /\ prev' = prev
    /\ pc' = "done"
    /\ UNCHANGED <<fd, regvars, initvars, txnvars, callvars, got>>

(* ----------------------------- the caller ----------------------------- *)

\* How a transaction that has returned ended: whether a call of
\* write_full/read_full had failed, whether fewer response bytes were read than
\* its header asked for, and the value it returned.
TxnEnd ==
    [txn |-> TRUE,
     failed |-> \E i \in 1..Len(rets) : rets[i] = -1,
     unread |-> Len(got) # in_bytes,
     result |-> result]

\* An operation has returned: its frame is gone and the caller goes on with the
\* value it returned.  What the operation put on the wire and read is recorded
\* per operation, so the record ends here too.
Resume ==
    /\ pc = "done"
    /\ pc' = "ready"
    /\ writecnt' = 0 /\ readcnt' = 0
    /\ writearr' = <<>> /\ readarr' = <<>>
    /\ out_bytes' = 0 /\ in_bytes' = 0
    /\ ret' = 0
    /\ step' = 0
    /\ size' = 0 /\ left' = 0 /\ bfr' = 0
    /\ result' = "none"
    /\ sent' = <<>> /\ got' = <<>> /\ rets' = <<>>
    /\ base' = 0
    /\ lastio' = "none"
    /\ eagain' = 0
    /\ ncalls' = 0
    /\ prev' = IF op = "txn" THEN TxnEnd ELSE prev
    /\ UNCHANGED <<fd, regvars, initvars, op, shut>>

(* --------------------------- specification ---------------------------- *)

Next ==
    \/ InitOpen
    \/ SetSerialGet
    \/ SetSerialSet
    \/ InitWrite
    \/ InitScan
    \/ SendCommand
    \/ WriteIter
    \/ ReadIter
    \/ Proceed
    \/ Shutdown
    \/ Resume

Spec == Init /\ [][Next]_vars

\* The program keeps running: a loop that can take a pass takes it, and a call
\* that returned is followed by the rest of the function.
IoStep == WriteIter \/ ReadIter \/ Proceed

FairSpec == Spec /\ WF_vars(IoStep)

TypeOK ==
    /\ pc \in {"start", "tcget", "tcset", "trigger", "scan", "init_failed",
               "exited", "ready", "loop", "ret", "done"}
    /\ step \in 0..4
    /\ left \in 0..(UINT8 - 1)
    /\ bfr \in 0..(UINT8 - 1)
    /\ out_bytes \in 0..(UINT8 - 1)
    /\ in_bytes \in 0..(UINT8 - 1)

(* ------------------------------ claims -------------------------------- *)

\* A count that does not fit the one-byte length of the frame.
Oversize == writecnt > UINT8 - 1 \/ readcnt > UINT8 - 1

\* A transaction is running or has just returned.
InTxn == op = "txn" /\ pc \in {"loop", "ret", "done"}

\* No call of write_full/read_full of the transaction has failed so far.
NoFailure ==
    /\ \A i \in 1..Len(rets) : rets[i] # -1
    /\ lastio \notin {"eof", "err"}

\* The frame of the transaction as the wire format defines it.
Frame == <<writecnt, readcnt>> \o writearr

\* s is a prefix of t.
IsPrefix(s, t) == Len(s) <= Len(t) /\ s = SubSeq(t, 1, Len(s))

\* The bytes the active call of write_full has put on the wire.
Delivered == SubSeq(sent, base + 1, Len(sent))

\* C1: a call of fernvale_spi_send_command with writecnt or readcnt above 255
\* puts no byte on the wire and does not return success.
C1_OversizeRejected ==
    (InTxn /\ Oversize) =>
        /\ sent = <<>>
        /\ (pc = "done" => result # 0)

\* C2: a transaction in which a call of write_full/read_full failed does not
\* return success to its caller.
C2_ErrorPropagated ==
    (InTxn /\ pc = "done" /\ \E i \in 1..Len(rets) : rets[i] = -1) => result # 0

\* C3: with counts in 0..255 and a channel that does not fail, the bytes written
\* are always a prefix of [write_len][read_len][payload], the whole frame is on
\* the wire before read_full is entered or any byte is read, never more than
\* read_len bytes are read, and exactly read_len bytes have been read at return.
C3_WireOrder ==
    (InTxn /\ ~Oversize /\ NoFailure) =>
        /\ IsPrefix(sent, Frame)
        /\ (step = 4 \/ got # <<>>) => sent = Frame
        /\ Len(got) <= readcnt
        /\ pc = "done" => (sent = Frame /\ Len(got) = readcnt)

C3_Witness ==
    /\ InTxn /\ pc = "done" /\ NoFailure
    /\ sent = <<1, 3, 159>>
    /\ Len(got) = 3

\* C4: with counts in 0..255 and a remote that delivers every requested byte, the
\* transaction returns exactly read_count bytes, equal in value and order to the
\* bytes the remote delivered, and the two length bytes on the wire are
\* len(write_bytes) and read_count.
C4_RoundTrip ==
    (InTxn /\ pc = "done" /\ ~Oversize /\ NoFailure) =>
        /\ Len(readarr) = readcnt
        /\ readarr = got
        /\ Len(sent) >= 2
        /\ sent[1] = Len(writearr)
        /\ sent[2] = readcnt

C4_Witness ==
    /\ InTxn /\ pc = "done" /\ ~Oversize /\ NoFailure
    /\ readcnt >= 3
    /\ readarr = got
    /\ got[1] # got[2] /\ got[2] = got[3]

\* C5: whatever part of the remainder each write() accepts, the bytes write_full
\* has delivered are the first bfr bytes of its buffer, in order, and when the
\* channel did not fail it returns the full size with the whole buffer delivered.
C5_PartialIO ==
    (InTxn /\ step \in 1..3 /\ pc \in {"loop", "ret"}) =>
        /\ Delivered = SubSeq(StepBuf(step), 1, bfr)
        /\ left + bfr = size
        /\ (pc = "ret" /\ lastio \notin {"eof", "err"}) =>
              /\ ret = size
              /\ Delivered = SubSeq(StepBuf(step), 1, size)

\* write_full has returned after delivering three bytes or more one at a time.
C5_Witness ==
    /\ InTxn /\ step = 3 /\ pc = "ret"
    /\ size >= 3
    /\ ret = size
    /\ eagain = 0
    /\ ncalls = size

\* A pass of a loop in which the system call returned EAGAIN.
EagainPass == pc = "loop" /\ eagain' = eagain + 1

\* C6: a pass that gets EAGAIN leaves the position, the remaining count, the wire
\* and the buffers as they were and stays in the loop; with finitely many EAGAIN
\* results every call of write_full/read_full returns; and a call that met EAGAIN
\* but no failure returns the size with no byte lost, repeated or changed.
C6_TransientRetry ==
    /\ [][EagainPass =>
            /\ pc' = "loop"
            /\ UNCHANGED <<left, bfr, sent, got, readarr, step, size>>]_vars
    /\ [](pc = "ret" /\ eagain > 0 /\ lastio \notin {"eof", "err"} =>
            /\ ret = size
            /\ step \in 1..3 => Delivered = SubSeq(StepBuf(step), 1, size)
            /\ step = 4 => SubSeq(readarr, 1, size) = got)
    /\ (pc = "loop") ~> (pc = "ret")

\* read_full has returned two bytes or more after an EAGAIN.
C6_Witness ==
    /\ InTxn /\ step = 4 /\ pc = "ret"
    /\ eagain > 0
    /\ size >= 2
    /\ ret = size
    /\ SubSeq(readarr, 1, size) = got

\* C7: once a write()/read() has returned 0 or failed with an errno other than
\* EAGAIN, the call of write_full/read_full has returned -1 with bytes still
\* remaining; it is not in its loop any more, so it makes no further system call.
C7_FailFast ==
    (InTxn /\ lastio \in {"eof", "err"}) =>
        /\ pc \in {"ret", "done"}
        /\ ret = -1
        /\ rets[step] = -1
        /\ left > 0

\* write_full has stopped at end of stream after a part of its buffer went out.
C7_Witness ==
    /\ InTxn /\ step = 3 /\ pc = "ret"
    /\ lastio = "eof"
    /\ bfr >= 1 /\ left >= 1
    /\ ret = -1

\* C8: no byte of a transaction frame is written before a read of the scan has
\* delivered the byte 0x05; the SPI master is registered only after the scan has
\* ended, and never when fernvale_spi_init fails.
C8_HandshakeGating ==
    /\ (InTxn /\ sent # <<>>) => sawReady
    /\ registered => pc \notin {"start", "tcget", "tcset", "trigger", "scan"}
    /\ pc \in {"init_failed", "exited"} => ~registered

\* C9: the scan is left as "ready" only when a byte that a read delivered
\* equals 0x05; a read that delivers no byte never ends it.
C9_ReadinessScan ==
    [][(pc = "scan" /\ pc' # "scan") => (sawReady' /\ ~sawReady)]_vars

\* C10: a call of fernvale_spi_shutdown puts exactly 0x00 0x00 on the wire,
\* however the channel takes the write, and reads nothing.
C10_ShutdownFrame ==
    (op = "shutdown" /\ pc = "done") => (sent = <<0, 0>> /\ got = <<>>)

\* C11: once fernvale_spi_shutdown has sent the Shutdown Frame, the session is
\* no longer Ready: a transaction invoked afterwards puts no byte on the wire.
C11_NoFrameAfterShutdown ==
    (shut /\ InTxn) => sent = <<>>

\* C12: when open() fails, fernvale_spi_init returns 1 to its caller and the
\* process goes on (it does not exit); nothing was written or read, and neither
\* the SPI master nor the shutdown handler is registered.
C12_DeviceOpenError ==
    fd = -1 =>
        /\ pc = "init_failed"
        /\ result = 1
        /\ sent = <<>> /\ got = <<>>
        /\ ready_tries = 0 /\ ~sawReady
        /\ ~registered /\ ~shutdown_registered

C12_Witness ==
    /\ op = "init" /\ fd = -1
    /\ pc = "init_failed"
    /\ result = 1

\* C13: when tcgetattr or tcsetattr fails, the process ends there: no step
\* follows, the trigger string was not written, no read of the scan was made and
\* nothing is registered.
C13_ConfigError ==
    /\ serial_ret = -1 =>
          /\ pc = "exited"
          /\ sent = <<>> /\ got = <<>>
          /\ ready_tries = 0 /\ ~sawReady
          /\ ~registered /\ ~shutdown_registered
    /\ pc = "exited" => ~ENABLED Next

C13_Witness ==
    /\ op = "init" /\ fd = OpenFd
    /\ serial_ret = -1
    /\ pc = "exited"

\* C14: when the scan is entered, and so before its first read, the bytes
\* written to the channel are exactly the 13 bytes of "spi flashrom\n" in order,
\* however write() took them.
C14_TriggerDelivered ==
    (op = "init" /\ pc \in {"scan", "done"}) => sent = TriggerCmd

\* C15: a pass of the scan ends the initialisation with success when its read
\* delivers 0x05, after any number of other bytes and failed reads, and in every
\* other case, whatever the count of passes, the scan goes on: without a 0x05
\* from the remote the initialisation never returns.
C15_HandshakeLiveness ==
    [][pc = "scan" =>
          IF sawReady' THEN pc' = "done" /\ result' = 0 /\ registered'
          ELSE pc' = "scan"]_vars

\* C16: the first header byte of a transaction is written only after the
\* transaction before it has ended with every response byte of its read_len
\* consumed, or with a failure reported to the caller.
C16_SingleInFlight ==
    (InTxn /\ sent # <<>>) => (~prev.unread \/ prev.result # 0)

\* C17: once a call of write_full/read_full of a transaction has failed, no
\* later call of that transaction makes a system call on the channel.
C17_FailureIsFatal ==
    (InTxn /\ \E i \in 1..Len(rets) : i < step /\ rets[i] = -1) => ncalls = 0

\* The bytes the active call of write_full/read_full has transferred.
Transferred == IF step = 4 THEN Len(got) ELSE Len(sent) - base

\* C18: a call of write_full/read_full returns the requested size or -1 and
\* nothing else; it returns the size exactly when that many bytes were
\* transferred, and a request of size 0 returns 0 without a system call.
C18_ExactOrError ==
    (InTxn /\ pc = "ret") =>
        /\ ret \in {size, -1}
        /\ (ret = size) <=> (Transferred = size)
        /\ size = 0 => (ret = 0 /\ ncalls = 0)

\* read_full has failed after a part of the response was read: it returns -1,
\* not the count of the bytes it got.
C18_Witness ==
    /\ InTxn /\ step = 4 /\ pc = "ret"
    /\ Len(got) >= 1 /\ Len(got) < size
    /\ ret = -1

\* C19: for any unsigned writecnt and readcnt the length bytes on the wire are
\* writecnt mod 256 and readcnt mod 256, the payload write and the response read
\* are made with these two sizes, and on a channel that does not fail the frame
\* carries as many payload bytes, and the host reads as many response bytes, as
\* its own header says.
C19_HeaderConsistent ==
    InTxn =>
        /\ (step = 1 /\ pc = "ret" /\ ret = 1) => sent = <<writecnt % UINT8>>
        /\ (step = 2 /\ pc = "ret" /\ ret = 1) => Delivered = <<readcnt % UINT8>>
        /\ step = 3 => size = writecnt % UINT8
        /\ step = 4 => size = readcnt % UINT8
        /\ (pc = "done" /\ NoFailure) =>
              /\ sent[1] = writecnt % UINT8
              /\ sent[2] = readcnt % UINT8
              /\ Len(sent) - 2 = sent[1]
              /\ SubSeq(sent, 3, Len(sent)) = SubSeq(writearr, 1, sent[1])
              /\ Len(got) = sent[2]

\* A transaction with counts 257 and 256 has returned: its header says 1 and 0.
C19_Witness ==
    /\ InTxn /\ pc = "done" /\ NoFailure
    /\ writecnt = UINT8 + 1 /\ readcnt = UINT8
    /\ Len(sent) = 3 /\ sent[1] = 1 /\ sent[2] = 0
    /\ got = <<>>

====
